---- MODULE Spec2Model ----
(***************************************************************************)
(* The python example plugin of stash: pyplugin.py (protocol handler and   *)
(* operation dispatcher) and stash_interface.py (GraphQL client), run as   *)
(* one process per invocation against a remote stash server.               *)
(*                                                                         *)
(* Python values are modelled as follows.  A dict read from JSON is a      *)
(* record whose DOMAIN is its key set.  An optional value (None or v) is   *)
(* the sequence <<>> or <<v>>.  The output dict of main is a set of        *)
(* <<key, value>> pairs.  An exception is the name of its kind.            *)
(***************************************************************************)
EXTENDS Integers, Sequences, FiniteSets, TLC

\* ---------------------------------------------------------------- bounds
MaxRuns == 2          \* invocations of the plugin against the same remote
MaxSceneTags == 3     \* longest tag list of a scene in the initial remote
MaxScenes == 2        \* scenes in the initial remote
MaxSleeps == 2        \* pauses of the indefinite task that are told apart

\* ------------------------------------------------------ program constants
DefaultPort == 9999   \* pyplugin.py:24
LongTaskTotal == 100  \* pyplugin.py:59
HttpOk == 200         \* stash_interface.py:33

TagName == "Hawwwwt"  \* pyplugin.py:72 and :101
OtherName == "other"

None == <<>>
Some(v) == <<v>>

HasKey(d, k) == k \in DOMAIN d

\* ------------------------------------------------------------- sequences
RECURSIVE Count(_, _)
Count(s, x) ==
    IF s = <<>> THEN 0
    ELSE (IF Head(s) = x THEN 1 ELSE 0) + Count(Tail(s), x)

\* s without any element equal to x.
RECURSIVE ListRemoveAll(_, _)
ListRemoveAll(s, x) ==
    IF s = <<>> THEN <<>>
    ELSE IF Head(s) = x THEN ListRemoveAll(Tail(s), x)
    ELSE <<Head(s)>> \o ListRemoveAll(Tail(s), x)

\* A slip at pyplugin.py:86: every occurrence of x is dropped.
ListRemove_EveryOccurrence(s, x) == ListRemoveAll(s, x)

\* list.remove(x): drops the first element equal to x; ValueError (caught at
\* pyplugin.py:87) leaves the list as it is.
RECURSIVE ListRemove(_, _)
ListRemove(s, x) ==
    IF s = <<>> THEN <<>>
    ELSE IF Head(s) = x THEN Tail(s)
    ELSE <<Head(s)>> \o ListRemove(Tail(s), x)

\* [t["id"] for t in scene["tags"]]
RECURSIVE IdsOf(_)
IdsOf(tags) ==
    IF tags = <<>> THEN <<>> ELSE <<Head(tags).id>> \o IdsOf(Tail(tags))

\* pyplugin.py:83-90: the tag-ID list sent to updateScene.
NewTagIds(sceneTags, tagID) == Append(ListRemove(IdsOf(sceneTags), tagID), tagID)

\* ------------------------------------------------------ invocation inputs
\* server_connection values.  The host's envelope carries Scheme, Port and
\* SessionCookie; the lower-case shapes are those of the written specification.
ConnFull == [Scheme |-> "http", Port |-> DefaultPort, SessionCookie |-> [Value |-> "cookie"]]
ConnNoValue == [Scheme |-> "http", Port |-> DefaultPort, SessionCookie |-> [Name |-> "session"]]
ConnNoCookie == [Scheme |-> "http", Port |-> DefaultPort]
ConnNoPort == [Scheme |-> "http", SessionCookie |-> [Value |-> "cookie"]]
ConnNoScheme == [Port |-> DefaultPort, SessionCookie |-> [Value |-> "cookie"]]
ConnLower == [scheme |-> "http", port |-> DefaultPort]
ConnLowerCookie == [scheme |-> "http", port |-> DefaultPort, session_cookie |-> "cookie"]

Conns == {ConnFull, ConnNoValue, ConnNoCookie, ConnNoPort, ConnNoScheme,
          ConnLower, ConnLowerCookie}

ClientModes == {"", "add", "remove"}
LocalModes == {"long", "indef", "bogus", "Add"}

\* JSON documents the host (or a user) may put on stdin.
StdinDocs ==
    {[args |-> [mode |-> m], server_connection |-> c] :
        m \in ClientModes, c \in Conns \ {ConnNoValue}}
    \cup {[args |-> [mode |-> "add"], server_connection |-> ConnNoValue]}
    \cup {[args |-> [mode |-> m]] : m \in ClientModes}
    \cup {[args |-> [mode |-> m], server_connection |-> ConnFull] : m \in LocalModes}
    \cup {[args |-> [other |-> "x"], server_connection |-> ConnFull]}
    \cup {[server_connection |-> ConnFull]}

\* What is on stdin: text json.loads accepts (valid, with the document it
\* yields) or text it rejects.
StdinTexts ==
    {[valid |-> TRUE, doc |-> d] : d \in StdinDocs}
    \cup {[valid |-> FALSE, doc |-> [raw |-> "not json"]]}

\* sys.argv[1:] is empty (stdin is read) or holds the mode.
Invocations ==
    {[argv |-> <<>>, stdin |-> t] : t \in StdinTexts}
    \cup {[argv |-> <<m>>, stdin |-> [valid |-> FALSE, doc |-> [raw |-> ""]]] :
            m \in ClientModes \cup LocalModes}

\* pyplugin.py:33-35 readJSONInput: json.loads of all of stdin.
ReadJSONInput(text) ==
    IF text.valid THEN [exc |-> "", ret |-> Some(text.doc)]
    ELSE [exc |-> "JSONDecodeError", ret |-> None]

\* pyplugin.py:22-25: the input built from the command line.
CommandLineInput(mode) ==
    [args |-> [mode |-> mode], server_connection |-> ConnNoCookie]

\* ------------------------------------------------------------ the client
\* A slip at stash_interface.py:15-16: conn.get with defaults in place of
\* conn['Port'] and conn['Scheme'].
StashInterfaceInit_Defaults(conn) ==
    IF ~HasKey(conn, "SessionCookie") THEN [exc |-> "AttributeError", ret |-> None]
    ELSE [exc |-> "",
          ret |-> Some([url |-> <<IF HasKey(conn, "Scheme") THEN conn.Scheme ELSE "http",
                                  "localhost",
                                  IF HasKey(conn, "Port") THEN conn.Port ELSE DefaultPort,
                                  "graphql">>,
                        session |-> IF HasKey(conn.SessionCookie, "Value")
                                    THEN Some(conn.SessionCookie.Value) ELSE None])]

\* stash_interface.py:14-23 StashInterface.__init__(conn).
StashInterfaceInit(conn) ==
    IF ~HasKey(conn, "Port") THEN [exc |-> "KeyError", ret |-> None]
    ELSE IF ~HasKey(conn, "Scheme") THEN [exc |-> "KeyError", ret |-> None]
    ELSE IF ~HasKey(conn, "SessionCookie") THEN [exc |-> "AttributeError", ret |-> None]
    ELSE [exc |-> "",
          ret |-> Some([url |-> <<conn.Scheme, "localhost", conn.Port, "graphql">>,
                        session |-> IF HasKey(conn.SessionCookie, "Value")
                                    THEN Some(conn.SessionCookie.Value) ELSE None])]

\* Python's truth test of a JSON value that is null, an object or an array:
\* null, {} and [] (all written <<>>) are false, and so is a key that
\* dict.get does not find; an object or array with an element is true.
Truthy(v) == DOMAIN v # {}
GetTruthy(d, k) == HasKey(d, k) /\ Truthy(d[k])

\* stash_interface.py:42: result.get("data", None) is truthy.
HasData(body) == GetTruthy(body, "data")

\* stash_interface.py:34-36: what the exception of a status other than 200
\* carries, the status code and the raw body.
TransportMessage(resp) == [status_code |-> resp.status_code, content |-> resp.body]

\* stash_interface.py:25-43 __callGraphQL, from the response on.  Every raise
\* in the file is a plain Exception; the kinds name the raise sites:
\* TransportError is line 34, GraphQLError is line 41.  parsed tells whether
\* response.json() (line 38) was reached.
CallGraphQL(resp) ==
    IF resp.status_code # HttpOk
        THEN [exc |-> "TransportError", ret |-> None, parsed |-> FALSE,
              msg |-> Some(TransportMessage(resp))]
    ELSE IF GetTruthy(resp.body, "error") /\ ~HasKey(resp.body.error, "errors")
        THEN [exc |-> "KeyError", ret |-> None, parsed |-> TRUE, msg |-> None]
    ELSE IF GetTruthy(resp.body, "error") /\ resp.body.error.errors # <<>>
        THEN [exc |-> "GraphQLError", ret |-> None, parsed |-> TRUE, msg |-> None]
    ELSE IF HasData(resp.body)
        THEN [exc |-> "", ret |-> Some(resp.body.data), parsed |-> TRUE, msg |-> None]
    ELSE [exc |-> "", ret |-> None, parsed |-> TRUE, msg |-> None]

\* next((tag["id"] for tag in allTags if tag["name"] == name), None)
RECURSIVE FirstIdWithName(_, _)
FirstIdWithName(tags, name) ==
    IF tags = <<>> THEN None
    ELSE IF Head(tags).name = name THEN Some(Head(tags).id)
    ELSE FirstIdWithName(Tail(tags), name)

\* stash_interface.py:45-59 findTagIdWithName, from the result of the call on.
FindTagIdWithName(res, name) ==
    IF res.exc # "" THEN res
    ELSE IF res.ret = None THEN [exc |-> "TypeError", ret |-> None]
    ELSE [exc |-> "", ret |-> FirstIdWithName(res.ret[1].allTags, name)]

\* stash_interface.py:61-74 createTagWithName, from the result of the call on.
CreateTagWithName(res) ==
    IF res.exc # "" THEN res
    ELSE IF res.ret = None THEN [exc |-> "TypeError", ret |-> None]
    ELSE [exc |-> "", ret |-> Some(res.ret[1].tagCreate.id)]

\* stash_interface.py:88-113 findRandomSceneId, from the result of the call on.
FindRandomSceneId(res) ==
    IF res.exc # "" THEN res
    ELSE IF res.ret = None THEN [exc |-> "TypeError", ret |-> None]
    ELSE IF res.ret[1].findScenes.count = 0 THEN [exc |-> "", ret |-> None]
    ELSE IF res.ret[1].findScenes.scenes = <<>> THEN [exc |-> "IndexError", ret |-> None]
    ELSE [exc |-> "", ret |-> Some(res.ret[1].findScenes.scenes[1])]

\* stash_interface.py:76-86 destroyTag and :115-125 updateScene: the result
\* of the call is dropped.
DropResult(res) == [exc |-> res.exc, ret |-> None]

\* A slip at pyplugin.py:75: the tag is created whatever the lookup returned.
NeedsCreate_Always(id) == TRUE

\* pyplugin.py:75: tagID is None, so the tag is created.
NeedsCreate(id) == id = None

\* A slip at pyplugin.py:104: destroyTag is called whatever the lookup returned.
NeedsDestroy_Always(id) == TRUE

\* A slip at pyplugin.py:104: removeTag returns whatever the lookup returned.
NeedsDestroy_Never(id) == FALSE

\* pyplugin.py:104: tagID is not None, so the tag is destroyed.
NeedsDestroy(id) == id # None

\* A slip at pyplugin.py:64: the step counted from one.
Progress_OneBased(n, total) == [num |-> n + 1, den |-> total]

\* pyplugin.py:64: float(upTo) / float(total), kept as the exact fraction.
Progress(n, total) == [num |-> n, den |-> total]

\* json.dumps of a string without characters to escape.
JsonString(s) == "\"" \o s \o "\""

\* One "key": "value" item of json.dumps, for the key k of the dict d.
JsonItem(d, k) ==
    JsonString(k) \o ": " \o JsonString((CHOOSE p \in d : p[1] = k)[2])

\* pyplugin.py:30 json.dumps(output): the items of the dict in the order
\* run inserts its keys (error at line 53, output at line 56), separated by
\* ", " and put in braces.  The values of output are strings.
JsonDumps(d) ==
    LET has(k) == \E p \in d : p[1] = k
    IN IF has("error") /\ has("output")
            THEN "{" \o JsonItem(d, "error") \o ", " \o JsonItem(d, "output") \o "}"
       ELSE IF has("error") THEN "{" \o JsonItem(d, "error") \o "}"
       ELSE IF has("output") THEN "{" \o JsonItem(d, "output") \o "}"
       ELSE "{}"

\* pyplugin.py:31 print(out + "\n"): the line out, then an empty line.
PrintOutput(out, d) == out \o <<JsonDumps(d), "">>

\* ------------------------------------------------------ the remote server
\* The stash server behind /graphql, by the documented meaning of its operations.
\* remote = [tags: list of tags, scenes: list of scenes, nextId: next tag id]
TargetTag == [id |-> 1, name |-> TagName]
OtherTag == [id |-> 2, name |-> OtherName]
InitialTags == {<<>>, <<OtherTag>>, <<TargetTag>>, <<OtherTag, TargetTag>>}

RECURSIVE SeqsUpTo(_, _)
SeqsUpTo(S, n) ==
    IF n = 0 THEN {<<>>}
    ELSE LET shorter == SeqsUpTo(S, n - 1)
         IN shorter \cup {Append(q, x) : q \in shorter, x \in S}

\* Every scene of the initial remote carries the same list of existing tags,
\* which may name a tag more than once.
InitialRemotes ==
    {[tags |-> ts,
      scenes |-> [i \in 1..n |-> [id |-> 10 + i, tags |-> l]],
      nextId |-> 3] :
        ts \in InitialTags, n \in 0..MaxScenes, l \in SeqsUpTo({1, 2}, MaxSceneTags)}

ExistingTagsOnly(r) ==
    \A i \in 1..Len(r.scenes) : \A j \in 1..Len(r.scenes[i].tags) :
        \E k \in 1..Len(r.tags) : r.tags[k].id = r.scenes[i].tags[j]

RECURSIVE WrapIds(_)
WrapIds(ids) ==
    IF ids = <<>> THEN <<>> ELSE <<[id |-> Head(ids)]>> \o WrapIds(Tail(ids))

AllTagsData(r) == [allTags |-> r.tags]

TagCreateData(r) == [tagCreate |-> [id |-> r.nextId]]

ApplyTagCreate(r, name) ==
    [r EXCEPT !.tags = Append(@, [id |-> r.nextId, name |-> name]),
              !.nextId = @ + 1]

\* per_page 1, sort random: the count of all scenes and one of them.
FindScenesData(r, i) ==
    [findScenes |->
        [count |-> Len(r.scenes),
         scenes |-> IF r.scenes = <<>> THEN <<>>
                    ELSE <<[id |-> r.scenes[i].id, tags |-> WrapIds(r.scenes[i].tags)]>>]]

ScenePicks(r) == IF r.scenes = <<>> THEN {0} ELSE 1..Len(r.scenes)

SceneUpdateData(sceneData) == [sceneUpdate |-> [id |-> sceneData.id]]

\* sceneUpdate replaces the scene's tag list wholesale.
ApplySceneUpdate(r, sceneData) ==
    [r EXCEPT !.scenes =
        [i \in 1..Len(r.scenes) |->
            IF r.scenes[i].id = sceneData.id
            THEN [r.scenes[i] EXCEPT !.tags = sceneData.tag_ids]
            ELSE r.scenes[i]]]

TagDestroyData == [tagDestroy |-> TRUE]

RECURSIVE WithoutTag(_, _)
WithoutTag(tags, id) ==
    IF tags = <<>> THEN <<>>
    ELSE IF Head(tags).id = id THEN WithoutTag(Tail(tags), id)
    ELSE <<Head(tags)>> \o WithoutTag(Tail(tags), id)

\* tagDestroy deletes the tag and takes it off every scene.
ApplyTagDestroy(r, id) ==
    [r EXCEPT !.tags = WithoutTag(@, id),
              !.scenes = [i \in 1..Len(r.scenes) |->
                            [r.scenes[i] EXCEPT !.tags = ListRemoveAll(@, id)]]]

\* The shapes of HTTP response the server (or a proxy before it) may give.
ReplyKinds == {"ok", "errors_data", "errors_null", "error_errors",
               "error_empty", "error_nokey", "error_falsy", "no_data", "data_empty",
               "http_201", "http_500"}

ServerReply(kind, data) ==
    CASE kind = "ok" -> [status_code |-> HttpOk, body |-> [data |-> data]]
      [] kind = "errors_data" ->
            [status_code |-> HttpOk,
             body |-> [errors |-> <<[message |-> "e1"]>>, data |-> data]]
      [] kind = "errors_null" ->
            [status_code |-> HttpOk,
             body |-> [errors |-> <<[message |-> "e1"]>>, data |-> None]]
      [] kind = "error_errors" ->
            [status_code |-> HttpOk,
             body |-> [error |-> [errors |-> <<"e1", "e2">>], data |-> data]]
      [] kind = "error_empty" ->
            [status_code |-> HttpOk, body |-> [error |-> [errors |-> <<>>], data |-> data]]
      [] kind = "error_nokey" ->
            [status_code |-> HttpOk, body |-> [error |-> [message |-> "e1"], data |-> data]]
      [] kind = "error_falsy" ->
            [status_code |-> HttpOk, body |-> [error |-> None, data |-> data]]
      [] kind = "data_empty" ->
            [status_code |-> HttpOk, body |-> [data |-> <<>>]]
      [] kind = "no_data" ->
            [status_code |-> HttpOk, body |-> [extensions |-> "none"]]
      [] kind = "http_201" -> [status_code |-> 201, body |-> [data |-> data]]
      [] kind = "http_500" -> [status_code |-> 500, body |-> [raw |-> "server error"]]

\* The server has carried the request out exactly when its reply has data.
Executes(kind) == HasData(ServerReply(kind, TagDestroyData).body)

\* pyplugin.py:38: modeArg = input['args']["mode"].
ModeArg(doc) ==
    IF ~HasKey(doc, "args") THEN [exc |-> "KeyError", ret |-> None]
    ELSE IF ~HasKey(doc.args, "mode") THEN [exc |-> "KeyError", ret |-> None]
    ELSE [exc |-> "", ret |-> Some(doc.args.mode)]

\* A slip at pyplugin.py:41: a mode that is not known runs the default
\* operation.
OperationOf_ElseAdd(mode) ==
    IF mode = "remove" THEN "remove"
    ELSE IF mode = "long" THEN "long"
    ELSE IF mode = "indef" THEN "indef"
    ELSE "add"

\* A slip at pyplugin.py:46: the remove branch calls addTag.
OperationOf_RemoveAdds(mode) ==
    IF mode \in {"", "add", "remove"} THEN "add"
    ELSE IF mode = "long" THEN "long"
    ELSE IF mode = "indef" THEN "indef"
    ELSE "none"

\* pyplugin.py:41-50: the branch of run's if/elif chain that modeArg takes;
\* "none" when no branch matches.
OperationOf(mode) ==
    IF mode \in {"", "add"} THEN "add"
    ELSE IF mode = "remove" THEN "remove"
    ELSE IF mode = "long" THEN "long"
    ELSE IF mode = "indef" THEN "indef"
    ELSE "none"

\* pyplugin.py:42 and :45: StashInterface(input["server_connection"]).
NewClient(doc) ==
    IF ~HasKey(doc, "server_connection") THEN [exc |-> "KeyError", ret |-> None]
    ELSE StashInterfaceInit(doc.server_connection)

\* ------------------------------------------------------------------ state
VARIABLES
    inv,        \* the invocation: sys.argv[1:] and the text on stdin
    run,        \* which invocation against this remote this is
    pc,         \* where the process is
    exc,        \* the exception that ended the process, "" if none
    input,      \* main's input, None before it is read
    client,     \* the StashInterface, None before it is constructed
    tagID,      \* addTag's and removeTag's tagID
    scene,      \* addTag's scene
    sceneData,  \* the input addTag has built for updateScene
    upTo,       \* doLongTask's loop variable
    sleeps,     \* pauses doIndefiniteTask has taken, up to MaxSleeps
    output,     \* main's output dict
    stdout,     \* the lines written to standard output
    progress,   \* the fractions given to log.LogProgress
    warnings,   \* the calls of log.LogWarning
    calls,      \* the client methods called in this invocation
    lastResp,   \* the HTTP response of the last call
    lastResult, \* what __callGraphQL made of it
    remote,     \* the server's tags and scenes
    remote0,    \* the server's tags and scenes when this invocation began
    prevUpdate  \* sceneData of the invocation before, when it ended in "done"

vars == <<inv, run, pc, exc, input, client, tagID, scene, sceneData, upTo, sleeps,
          output, stdout, progress, warnings, calls, lastResp, lastResult, remote,
          remote0, prevUpdate>>

Init ==
    /\ inv \in Invocations
    /\ remote \in {r \in InitialRemotes : ExistingTagsOnly(r)}
    /\ remote0 = remote
    /\ run = 1
    /\ pc = "start"
    /\ exc = ""
    /\ input = None
    /\ client = None
    /\ tagID = None
    /\ scene = None
    /\ sceneData = None
    /\ upTo = 0
    /\ sleeps = 0
    /\ output = {}
    /\ stdout = <<>>
    /\ progress = <<>>
    /\ warnings = 0
    /\ calls = <<>>
    /\ lastResp = None
    /\ lastResult = None
    /\ prevUpdate = None

\* The handler pyplugin.py:53-54 leaves commented out: the exception is put
\* into the output's error field and the output is written.
Crash_ReportsError(kind) ==
    /\ pc' = "done"
    /\ exc' = kind
    /\ output' = output \cup {<<"error", kind>>}
    /\ stdout' = PrintOutput(stdout, output \cup {<<"error", kind>>})

\* A slip at pyplugin.py:51-52: the exception is swallowed and the step that
\* raised it is taken again.
Crash_Retry(kind) ==
    /\ UNCHANGED <<pc, exc, output, stdout>>

\* An uncaught exception: the traceback goes to stderr and the process ends.
Crash(kind) ==
    /\ pc' = "crashed"
    /\ exc' = kind
    /\ UNCHANGED <<output, stdout>>

\* pyplugin.py:56 and :30-31: run returns, main prints the output.
Finish ==
    /\ pc' = "done"
    /\ exc' = ""
    /\ output' = output \cup {<<"output", "ok">>}
    /\ stdout' = PrintOutput(stdout, output \cup {<<"output", "ok">>})

\* pyplugin.py:14-25: main reads its input.
Main_ReadInput ==
    /\ pc = "start"
    /\ IF inv.argv = <<>>
       THEN LET r == ReadJSONInput(inv.stdin)
            IN IF r.exc # ""
               THEN Crash(r.exc) /\ input' = None
               ELSE /\ input' = r.ret
                    /\ pc' = "run"
                    /\ UNCHANGED <<exc, output, stdout>>
       ELSE /\ input' = Some(CommandLineInput(inv.argv[1]))
            /\ pc' = "run"
            /\ UNCHANGED <<exc, output, stdout>>
    /\ UNCHANGED <<inv, run, client, tagID, scene, sceneData, upTo, sleeps, progress,
                   warnings, calls, lastResp, lastResult, remote, remote0, prevUpdate>>

\* pyplugin.py:37-50: run reads the mode and enters the operation, up to the
\* operation's first remote call or pause; an unknown mode falls through to
\* line 56.
Run_Dispatch ==
    /\ pc = "run"
    /\ LET doc == input[1]
           m == ModeArg(doc)
           c == NewClient(doc)
       IN IF m.exc # ""
          THEN Crash(m.exc) /\ UNCHANGED <<client, upTo, warnings>>
          ELSE IF OperationOf(m.ret[1]) \in {"add", "remove"}
          THEN IF c.exc # ""
               THEN Crash(c.exc) /\ UNCHANGED <<client, upTo, warnings>>
               ELSE /\ client' = c.ret
                    /\ pc' = IF OperationOf(m.ret[1]) = "remove"
                             THEN "remove_findTag" ELSE "add_findTag"
                    /\ UNCHANGED <<exc, output, stdout, upTo, warnings>>
          ELSE IF OperationOf(m.ret[1]) = "long"
          THEN /\ pc' = "long"
               /\ upTo' = 0
               /\ UNCHANGED <<exc, output, stdout, client, warnings>>
          ELSE IF OperationOf(m.ret[1]) = "indef"
          THEN /\ pc' = "indef"
               /\ warnings' = warnings + 1
               /\ UNCHANGED <<exc, output, stdout, client, upTo>>
          ELSE Finish /\ UNCHANGED <<client, upTo, warnings>>
    /\ UNCHANGED <<inv, run, input, tagID, scene, sceneData, sleeps, progress, calls,
                   lastResp, lastResult, remote, remote0, prevUpdate>>

\* pyplugin.py:61-64: one turn of doLongTask's loop, time.sleep(1) then
\* log.LogProgress; upTo then takes the next value of range(total).  After
\* the last turn upTo keeps its value, run returns and main prints.
DoLongTask_Step ==
    /\ pc = "long"
    /\ upTo < LongTaskTotal
    /\ progress' = Append(progress, Progress(upTo, LongTaskTotal))
    /\ upTo' = IF upTo + 1 < LongTaskTotal THEN upTo + 1 ELSE upTo
    /\ IF upTo + 1 < LongTaskTotal
       THEN UNCHANGED <<pc, exc, output, stdout>>
       ELSE Finish
    /\ UNCHANGED <<inv, run, input, client, tagID, scene, sceneData, sleeps, warnings,
                   calls, lastResp, lastResult, remote, remote0, prevUpdate>>

\* A slip at pyplugin.py:68: a loop that counts its sleeps and returns.
DoIndefiniteTask_Sleep_Counted ==
    /\ pc = "indef"
    /\ sleeps' = IF sleeps < MaxSleeps THEN sleeps + 1 ELSE sleeps
    /\ IF sleeps < MaxSleeps THEN UNCHANGED <<pc, exc, output, stdout>> ELSE Finish
    /\ UNCHANGED <<inv, run, input, client, tagID, scene, sceneData, upTo,
                   progress, warnings, calls, lastResp, lastResult,
                   remote, remote0, prevUpdate>>

\* pyplugin.py:68-69: one time.sleep(1) of doIndefiniteTask.
DoIndefiniteTask_Sleep ==
    /\ pc = "indef"
    /\ sleeps' = IF sleeps < MaxSleeps THEN sleeps + 1 ELSE sleeps
    /\ UNCHANGED <<inv, run, pc, exc, input, client, tagID, scene, sceneData, upTo,
                   output, stdout, progress, warnings, calls, lastResp, lastResult,
                   remote, remote0, prevUpdate>>

\* The host ends a process that does not end by itself.
HostKill ==
    /\ pc = "indef"
    /\ pc' = "killed"
    /\ UNCHANGED <<inv, run, exc, input, client, tagID, scene, sceneData, upTo, sleeps,
                   output, stdout, progress, warnings, calls, lastResp, lastResult,
                   remote, remote0, prevUpdate>>

\* One remote call: the request is logged, the server answers with a reply of
\* some kind and carries the request out when the reply has data.
RemoteCall(op, arg, kind, data, applied, res) ==
    /\ calls' = Append(calls, [op |-> op, arg |-> arg, ok |-> res.exc = "", ret |-> res.ret])
    /\ lastResp' = Some(ServerReply(kind, data))
    /\ lastResult' = Some(CallGraphQL(ServerReply(kind, data)))
    /\ remote' = IF Executes(kind) THEN applied ELSE remote

\* pyplugin.py:73-76: addTag looks the tag up.
AddTag_FindTag ==
    /\ pc = "add_findTag"
    /\ \E kind \in ReplyKinds :
        LET data == AllTagsData(remote)
            res == FindTagIdWithName(CallGraphQL(ServerReply(kind, data)), TagName)
        IN /\ RemoteCall("findTagIdWithName", TagName, kind, data, remote, res)
           /\ IF res.exc # ""
              THEN Crash(res.exc) /\ UNCHANGED tagID
              ELSE /\ tagID' = res.ret
                   /\ pc' = IF NeedsCreate(res.ret) THEN "add_createTag" ELSE "add_findScene"
                   /\ UNCHANGED <<exc, output, stdout>>
    /\ UNCHANGED <<inv, run, input, client, scene, sceneData, upTo, sleeps, progress,
                   warnings, remote0, prevUpdate>>

\* pyplugin.py:76: addTag creates the tag.
AddTag_CreateTag ==
    /\ pc = "add_createTag"
    /\ \E kind \in ReplyKinds :
        LET data == TagCreateData(remote)
            res == CreateTagWithName(CallGraphQL(ServerReply(kind, data)))
        IN /\ RemoteCall("createTagWithName", TagName, kind, data,
                         ApplyTagCreate(remote, TagName), res)
           /\ IF res.exc # ""
              THEN Crash(res.exc) /\ UNCHANGED tagID
              ELSE /\ tagID' = res.ret
                   /\ pc' = "add_findScene"
                   /\ UNCHANGED <<exc, output, stdout>>
    /\ UNCHANGED <<inv, run, input, client, scene, sceneData, upTo, sleeps, progress,
                   warnings, remote0, prevUpdate>>

\* pyplugin.py:78-95: addTag asks for a scene and builds updateScene's input.
AddTag_FindScene ==
    /\ pc = "add_findScene"
    /\ \E kind \in ReplyKinds, i \in ScenePicks(remote) :
        LET data == FindScenesData(remote, i)
            res == FindRandomSceneId(CallGraphQL(ServerReply(kind, data)))
        IN /\ RemoteCall("findRandomSceneId", "random", kind, data, remote, res)
           /\ IF res.exc # ""
              THEN Crash(res.exc) /\ UNCHANGED <<scene, sceneData>>
              ELSE IF res.ret = None
              THEN Crash("NoTargetError") /\ UNCHANGED <<scene, sceneData>>
              ELSE /\ scene' = res.ret
                   /\ sceneData' = Some([id |-> res.ret[1].id,
                                         tag_ids |-> NewTagIds(res.ret[1].tags, tagID[1])])
                   /\ pc' = "add_updateScene"
                   /\ UNCHANGED <<exc, output, stdout>>
    /\ UNCHANGED <<inv, run, input, client, tagID, upTo, sleeps, progress, warnings,
                   remote0, prevUpdate>>

\* pyplugin.py:97-98, then :56 and :30-31: addTag updates the scene.
AddTag_UpdateScene ==
    /\ pc = "add_updateScene"
    /\ \E kind \in ReplyKinds :
        LET data == SceneUpdateData(sceneData[1])
            res == DropResult(CallGraphQL(ServerReply(kind, data)))
        IN /\ RemoteCall("updateScene", sceneData[1], kind, data,
                         ApplySceneUpdate(remote, sceneData[1]), res)
           /\ IF res.exc # "" THEN Crash(res.exc) ELSE Finish
    /\ UNCHANGED <<inv, run, input, client, tagID, scene, sceneData, upTo, sleeps,
                   progress, warnings, remote0, prevUpdate>>

\* pyplugin.py:102-106: removeTag looks the tag up; without a tag it returns.
RemoveTag_FindTag ==
    /\ pc = "remove_findTag"
    /\ \E kind \in ReplyKinds :
        LET data == AllTagsData(remote)
            res == FindTagIdWithName(CallGraphQL(ServerReply(kind, data)), TagName)
        IN /\ RemoteCall("findTagIdWithName", TagName, kind, data, remote, res)
           /\ IF res.exc # ""
              THEN Crash(res.exc) /\ UNCHANGED tagID
              ELSE /\ tagID' = res.ret
                   /\ IF NeedsDestroy(res.ret)
                      THEN /\ pc' = "remove_destroyTag"
                           /\ UNCHANGED <<exc, output, stdout>>
                      ELSE Finish
    /\ UNCHANGED <<inv, run, input, client, scene, sceneData, upTo, sleeps, progress,
                   warnings, remote0, prevUpdate>>

\* pyplugin.py:108-109, then :56 and :30-31: removeTag destroys the tag.
RemoveTag_DestroyTag ==
    /\ pc = "remove_destroyTag"
    /\ \E kind \in ReplyKinds :
        LET data == TagDestroyData
            res == DropResult(CallGraphQL(ServerReply(kind, data)))
        IN /\ RemoteCall("destroyTag", tagID, kind, data,
                         IF tagID = None THEN remote ELSE ApplyTagDestroy(remote, tagID[1]),
                         res)
           /\ IF res.exc # "" THEN Crash(res.exc) ELSE Finish
    /\ UNCHANGED <<inv, run, input, client, tagID, scene, sceneData, upTo, sleeps,
                   progress, warnings, remote0, prevUpdate>>

\* The host runs the same task again, against the remote as it now is.
Reinvoke ==
    /\ pc \in {"done", "crashed", "killed"}
    /\ run < MaxRuns
    /\ run' = run + 1
    /\ prevUpdate' = IF pc = "done" THEN sceneData ELSE None
    /\ pc' = "start"
    /\ exc' = ""
    /\ input' = None
    /\ client' = None
    /\ tagID' = None
    /\ scene' = None
    /\ sceneData' = None
    /\ upTo' = 0
    /\ sleeps' = 0
    /\ output' = {}
    /\ stdout' = <<>>
    /\ progress' = <<>>
    /\ warnings' = 0
    /\ calls' = <<>>
    /\ lastResp' = None
    /\ lastResult' = None
    /\ remote0' = remote
    /\ UNCHANGED <<inv, remote>>

Next ==
    \/ Main_ReadInput
    \/ Run_Dispatch
    \/ DoLongTask_Step
    \/ DoIndefiniteTask_Sleep
    \/ HostKill
    \/ AddTag_FindTag
    \/ AddTag_CreateTag
    \/ AddTag_FindScene
    \/ AddTag_UpdateScene
    \/ RemoveTag_FindTag
    \/ RemoveTag_DestroyTag
    \/ Reinvoke

Spec == Init /\ [][Next]_vars

\* ------------------------------------------------------------ properties
\* How many calls of the client method op this invocation has made.
RECURSIVE CountOp(_, _)
CountOp(cs, op) ==
    IF cs = <<>> THEN 0
    ELSE (IF Head(cs).op = op THEN 1 ELSE 0) + CountOp(Tail(cs), op)

InputRead == input # None
ModeKnown == InputRead /\ ModeArg(input[1]).exc = ""
ModeIs(ms) == ModeKnown /\ ModeArg(input[1]).ret[1] \in ms
Ended == pc \in {"done", "crashed"}
OkLines == <<JsonDumps({<<"output", "ok">>}), "">>
TagExisted == FirstIdWithName(remote0.tags, TagName) # None

\* C1 (as claimed): in mode "" or "add" with a scene on the remote, an
\* invocation whose operation ran to its end has called updateScene exactly
\* once, with a tag-ID list that holds the target tag's ID exactly once,
\* however that ID was present in the scene before.
C1_UpdateHoldsTargetOnce ==
    (ModeIs({"", "add"}) /\ pc = "done" /\ remote0.scenes # <<>>)
        => /\ CountOp(calls, "updateScene") = 1
           /\ Count(sceneData[1].tag_ids, tagID[1]) = 1

\* C2 (as claimed): when findRandomSceneId reports no scene, add fails and
\* no createTag, updateScene or destroyTag call has been made.
C2_NoSceneNoMutation ==
    exc = "NoTargetError"
        => /\ pc = "crashed"
           /\ CountOp(calls, "createTagWithName") = 0
           /\ CountOp(calls, "updateScene") = 0
           /\ CountOp(calls, "destroyTag") = 0

\* C2 (amended): when findRandomSceneId reports no scene, add fails with the
\* no-scene exception, nothing is written, no updateScene or destroyTag call
\* has been made, and createTag has been called once if the tag lookup
\* returned absent and not at all if it returned an ID.
C2_NoSceneFailsAfterCreate ==
    exc = "NoTargetError"
        => /\ pc = "crashed"
           /\ stdout = <<>>
           /\ CountOp(calls, "updateScene") = 0
           /\ CountOp(calls, "destroyTag") = 0
           /\ calls[1].op = "findTagIdWithName"
           /\ CountOp(calls, "createTagWithName") = (IF calls[1].ret = None THEN 1 ELSE 0)
           /\ calls[Len(calls)].op = "findRandomSceneId"
           /\ remote.scenes = <<>>

C2_Witness ==
    /\ exc = "NoTargetError"
    /\ CountOp(calls, "createTagWithName") = 1
    /\ ~TagExisted

\* C3 (as claimed): a 2xx response whose body has a non-empty errors
\* collection makes execute fail with a GraphQLError; no data is returned.
C3_ErrorsNeverReturnData ==
    (/\ lastResp # None
     /\ lastResp[1].status_code \in 200..299
     /\ HasKey(lastResp[1].body, "errors")
     /\ lastResp[1].body.errors # <<>>)
        => /\ lastResult[1].exc = "GraphQLError"
           /\ lastResult[1].ret = None

\* C4 (as claimed): an invocation whose operation has ended, by returning or
\* by failing, has written the Invocation Output exactly once.
C4_OutputWrittenOnce ==
    (Ended /\ calls # <<>>)
        => /\ Len(stdout) = 2
           /\ stdout[1] \in {JsonDumps({<<"output", "ok">>}), JsonDumps({<<"error", "e">>})}
           /\ stdout[2] = ""

\* The invocation and the remote of the end-to-end add scenario.
C5_Invocations ==
    {[argv |-> <<>>,
      stdin |-> [valid |-> TRUE,
                 doc |-> [args |-> [mode |-> "add"], server_connection |-> c]]] :
        c \in {ConnLower, ConnNoCookie}}

C5_Remote(r) ==
    /\ FirstIdWithName(r.tags, TagName) = None
    /\ Len(r.scenes) = 1
    /\ r.scenes[1].tags = <<>>

\* C5 (as claimed): the input (with the keys as written there, or as the
\* host writes them, Scheme and Port) {"args":{"mode":"add"},"server_connection":
\* {"scheme":"http","port":9999}} against a remote without the tag and with
\* one scene without tags, every call succeeding, ends with the calls
\* createTag, findRandomScene, updateScene(tag_ids = [new ID]) in that order
\* and the output {"output":"ok"}.
C5_EndToEndAdd ==
    (/\ inv \in C5_Invocations
     /\ C5_Remote(remote0)
     /\ Ended
     /\ \A i \in 1..Len(calls) : calls[i].ok)
        => /\ pc = "done"
           /\ Len(calls) = 4
           /\ calls[2].op = "createTagWithName"
           /\ calls[3].op = "findRandomSceneId"
           /\ calls[4].op = "updateScene"
           /\ calls[4].arg.tag_ids = <<calls[2].ret[1]>>
           /\ stdout = OkLines

\* C6 (as claimed): mode "long" has made exactly 100 progress reports when
\* the output is written, strictly increasing, the k-th being k/100: the
\* first 1/100 and the last 100/100.
C6_ProgressOneToHundred ==
    ModeIs({"long"})
        => /\ (stdout # <<>> => Len(progress) = 100)
           /\ \A k \in 1..Len(progress) : progress[k].num * 100 = k * progress[k].den

\* C6 (amended): mode "long" has made exactly 100 progress reports when the
\* output is written and none after it, strictly increasing, the k-th being
\* (k-1)/100: the first 0/100 and the last 99/100.
C6_ProgressZeroToNinetyNine ==
    ModeIs({"long"})
        => /\ (stdout # <<>> => pc = "done" /\ Len(progress) = 100 /\ stdout = OkLines)
           /\ (pc = "done" => stdout # <<>>)
           /\ Len(progress) <= 100
           /\ \A k \in 1..Len(progress) :
                /\ progress[k].num * 100 = (k - 1) * progress[k].den
                /\ progress[k].den > 0
                /\ k > 1 => progress[k - 1].num * progress[k].den
                                < progress[k].num * progress[k - 1].den

C6_Witness ==
    /\ ModeIs({"long"})
    /\ pc = "done"
    /\ Len(progress) = 100
    /\ progress[100] = [num |-> 99, den |-> 100]

\* C7 (as claimed): an input whose args has no "mode" entry runs the default
\* (add) operation, as mode "" does: the client is constructed and the
\* process does not fail over the missing entry.
C7_AbsentModeIsDefault ==
    (/\ InputRead
     /\ HasKey(input[1], "args")
     /\ ~HasKey(input[1].args, "mode")
     /\ pc \notin {"start", "run"})
        => /\ client # None
           /\ exc # "KeyError"

\* C8 (as claimed): started with the command-line mode "add" or "remove",
\* the process uses the synthetic connection without a session cookie,
\* constructs the client from it and comes to its first remote call.
C8_NoCookieAccepted ==
    (inv.argv \in {<<"add">>, <<"remove">>} /\ pc \notin {"start", "run"})
        => /\ input[1].server_connection = ConnNoCookie
           /\ client # None
           /\ pc \in {"add_findTag", "remove_findTag"} \/ calls # <<>>

\* C9: in mode "remove", once findTagIdWithName has returned absent (the
\* remote has no tag of the fixed name), the invocation has made no other
\* call, so no createTag, updateScene or destroyTag, has left the remote as
\* it was, has ended without an exception and has written {"output":"ok"}.
C9_RemoveAbsentTagIsNoop ==
    (/\ ModeIs({"remove"})
     /\ calls # <<>>
     /\ calls[1].ok
     /\ calls[1].ret = None)
        => /\ ~TagExisted
           /\ Len(calls) = 1
           /\ CountOp(calls, "destroyTag") = 0
           /\ CountOp(calls, "createTagWithName") = 0
           /\ CountOp(calls, "updateScene") = 0
           /\ remote = remote0
           /\ pc = "done"
           /\ exc = ""
           /\ stdout = OkLines

C9_Witness ==
    /\ ModeIs({"remove"})
    /\ ~TagExisted
    /\ Len(calls) = 1
    /\ calls[1].op = "findTagIdWithName"
    /\ calls[1].ret = None
    /\ pc = "done"
    /\ stdout = OkLines

\* C10 (as claimed): when a second add run finds the scene with the tag list
\* the first run's updateScene wrote, the list the second run computes holds
\* the target ID exactly once and equals the first run's list.
C10_AddTwiceSameList ==
    (/\ ModeIs({"", "add"})
     /\ prevUpdate # None
     /\ sceneData # None
     /\ scene[1].id = prevUpdate[1].id
     /\ IdsOf(scene[1].tags) = prevUpdate[1].tag_ids)
        => /\ Count(sceneData[1].tag_ids, tagID[1]) = 1
           /\ sceneData[1].tag_ids = prevUpdate[1].tag_ids

\* C11 (as claimed): a response whose status is not 2xx fails as a transport
\* error without its body being parsed, and every 2xx response is parsed
\* and not rejected as a transport failure.
C11_Every2xxParsed ==
    lastResp # None
        => /\ lastResp[1].status_code \notin 200..299
                => lastResult[1].exc = "TransportError" /\ ~lastResult[1].parsed
           /\ lastResp[1].status_code \in 200..299
                => lastResult[1].exc # "TransportError" /\ lastResult[1].parsed

\* C12: a failure raised in an invocation ends the process abnormally with
\* the exception that was raised (the one __callGraphQL raised, when it
\* raised one): the output's error field is not populated, output is not
\* set to "ok", and no Invocation Output is written.
C12_FailurePropagates ==
    /\ exc # ""
        => /\ pc = "crashed"
           /\ output = {}
           /\ stdout = <<>>
           /\ exc \in {"JSONDecodeError", "KeyError", "AttributeError", "TypeError",
                       "IndexError", "TransportError", "GraphQLError", "NoTargetError"}
           /\ (calls # <<>> /\ lastResult[1].exc # "") => exc = lastResult[1].exc
           /\ calls # <<>> => (~calls[Len(calls)].ok \/ exc = "NoTargetError")
    /\ pc = "crashed" => exc # ""
    /\ (calls # <<>> /\ ~calls[Len(calls)].ok) => pc = "crashed"

C12_Witness ==
    /\ pc = "crashed"
    /\ exc = "GraphQLError"
    /\ calls # <<>>
    /\ lastResult[1].exc = "GraphQLError"
    /\ output = {}
    /\ stdout = <<>>

\* C13: a mode other than "", "add", "remove", "long" and "indef" runs no
\* operation: no client is constructed, no remote call, progress report or
\* warning is made, the remote stays as it was, and the invocation ends with
\* {"output":"ok"} written.
C13_UnknownModeIsNoop ==
    (/\ ModeKnown
     /\ ModeArg(input[1]).ret[1] \notin {"", "add", "remove", "long", "indef"}
     /\ pc \notin {"start", "run"})
        => /\ pc = "done"
           /\ exc = ""
           /\ client = None
           /\ calls = <<>>
           /\ lastResp = None
           /\ progress = <<>>
           /\ warnings = 0
           /\ remote = remote0
           /\ output = {<<"output", "ok">>}
           /\ stdout = OkLines

C13_Witness ==
    /\ ModeIs({"bogus"})
    /\ inv.argv = <<>>
    /\ pc = "done"
    /\ client = None
    /\ stdout = OkLines

\* The text on stdin is read and is not a JSON document, or is one without
\* args, or one whose mode needs the client and whose server_connection, or
\* its Scheme or its Port, is missing.
MalformedInput ==
    /\ inv.argv = <<>>
    /\ \/ ~inv.stdin.valid
       \/ ~HasKey(inv.stdin.doc, "args")
       \/ /\ HasKey(inv.stdin.doc.args, "mode")
          /\ inv.stdin.doc.args.mode \in {"", "add", "remove"}
          /\ \/ ~HasKey(inv.stdin.doc, "server_connection")
             \/ ~HasKey(inv.stdin.doc.server_connection, "Scheme")
             \/ ~HasKey(inv.stdin.doc.server_connection, "Port")

\* C14: without a command-line argument the whole of stdin is read before
\* anything else is done, and when it is not JSON or lacks a required field
\* the process fails (JSONDecodeError or KeyError) with no client
\* constructed, no remote call attempted and nothing written.
C14_MalformedInputIsFatal ==
    /\ (inv.argv = <<>> /\ pc \notin {"start", "crashed"})
            => input = Some(inv.stdin.doc)
    /\ (inv.argv = <<>> /\ calls # <<>>) => input = Some(inv.stdin.doc)
    /\ MalformedInput
        => /\ pc \in {"start", "run", "crashed"}
           /\ pc = "crashed" => exc \in {"JSONDecodeError", "KeyError"}
           /\ client = None
           /\ calls = <<>>
           /\ lastResp = None
           /\ remote = remote0
           /\ stdout = <<>>

C14_Witness ==
    /\ MalformedInput
    /\ inv.stdin.valid
    /\ HasKey(inv.stdin.doc, "server_connection")
    /\ inv.stdin.doc.server_connection = ConnNoPort
    /\ pc = "crashed"
    /\ exc = "KeyError"
    /\ calls = <<>>

\* C15: an invocation in mode "indef" logs one warning and then only sleeps:
\* it never returns, never fails, writes no output, constructs no client and
\* issues no remote call; the one way out of the loop is the host ending the
\* process.
C15_IndefNeverSucceeds ==
    (ModeIs({"indef"}) /\ pc # "run")
        => /\ pc \in {"indef", "killed"}
           /\ exc = ""
           /\ warnings = 1
           /\ output = {}
           /\ stdout = <<>>
           /\ progress = <<>>
           /\ client = None
           /\ calls = <<>>
           /\ remote = remote0

C15_Witness ==
    /\ ModeIs({"indef"})
    /\ pc = "indef"
    /\ sleeps = MaxSleeps
    /\ warnings = 1
    /\ stdout = <<>>

RemoteOps == {"findTagIdWithName", "createTagWithName", "findRandomSceneId",
              "updateScene", "destroyTag"}

\* C16: within one invocation each of the five remote calls is issued at
\* most once, and a remote call that failed (the client raised on its
\* response) is the last one of the invocation: the process has ended.
C16_SinglePassNoRetry ==
    /\ \A op \in RemoteOps : CountOp(calls, op) <= 1
    /\ \A i \in 1..Len(calls) : calls[i].op \in RemoteOps
    /\ \A i \in 1..(Len(calls) - 1) : calls[i].ok
    /\ (calls # <<>> /\ ~calls[Len(calls)].ok) => pc = "crashed"

C16_Witness ==
    /\ pc = "crashed"
    /\ Len(calls) = 4
    /\ calls[4].op = "updateScene"
    /\ ~calls[4].ok
    /\ \A i \in 1..3 : calls[i].ok

OpsOf(cs) == [i \in 1..Len(cs) |-> cs[i].op]
IsPrefix(s, t) == Len(s) <= Len(t) /\ s = SubSeq(t, 1, Len(s))
AddWithCreate == <<"findTagIdWithName", "createTagWithName", "findRandomSceneId",
                   "updateScene">>
AddWithoutCreate == <<"findTagIdWithName", "findRandomSceneId", "updateScene">>

\* C17: in mode "add" (or "") the remote calls are, in this order, the tag
\* lookup, the tag creation exactly when the lookup returned no ID, the scene
\* lookup and the scene update; the tag is never created when it existed, and
\* the update comes only after a tag ID and a scene were obtained, and
\* carries them.
C17_AddOrdering ==
    ModeIs({"", "add"})
        => /\ IF calls # <<>> /\ calls[1].ok /\ calls[1].ret = None
              THEN IsPrefix(OpsOf(calls), AddWithCreate)
              ELSE IsPrefix(OpsOf(calls), AddWithoutCreate)
           /\ CountOp(calls, "createTagWithName") = 1 => ~TagExisted
           /\ \A i \in 1..Len(calls) :
                calls[i].op = "updateScene"
                    => /\ \A j \in 1..(i - 1) : calls[j].ok
                       /\ calls[i - 1].op = "findRandomSceneId"
                       /\ calls[i - 1].ret # None
                       /\ calls[i].arg.id = calls[i - 1].ret[1].id
                       /\ calls[i - 2].ret # None
                       /\ calls[i].arg.tag_ids[Len(calls[i].arg.tag_ids)]
                            = calls[i - 2].ret[1]
           /\ pc = "done"
                => OpsOf(calls) \in {AddWithCreate, AddWithoutCreate}

C17_Witness ==
    /\ ModeIs({"", "add"})
    /\ pc = "done"
    /\ OpsOf(calls) = AddWithCreate
    /\ calls[1].ret = None
    /\ run = 1

RemoveWithDestroy == <<"findTagIdWithName", "destroyTag">>

\* C18: in mode "remove", when the tag exists remotely, the lookup returns
\* its ID and destroyTag is then called once with exactly that ID; no
\* createTag, findRandomScene or updateScene call is made, and when both
\* calls succeed the output written is {"output": "ok"}.
C18_RemoveDestroysFoundTag ==
    (ModeIs({"remove"}) /\ TagExisted)
        => /\ IsPrefix(OpsOf(calls), RemoveWithDestroy)
           /\ (calls # <<>> /\ calls[1].ok)
                => /\ calls[1].ret = FirstIdWithName(remote0.tags, TagName)
                   /\ pc \in {"remove_destroyTag", "done", "crashed"}
                   /\ pc # "remove_destroyTag" => Len(calls) = 2
           /\ Len(calls) = 2
                => /\ calls[1].ok
                   /\ calls[2].arg = calls[1].ret
                   /\ calls[2].arg # None
                   /\ pc = (IF calls[2].ok THEN "done" ELSE "crashed")
           /\ pc = "done"
                => /\ Len(calls) = 2
                   /\ output = {<<"output", "ok">>}
                   /\ stdout = OkLines

C18_Witness ==
    /\ ModeIs({"remove"})
    /\ TagExisted
    /\ pc = "done"
    /\ OpsOf(calls) = RemoveWithDestroy
    /\ calls[2].arg = FirstIdWithName(remote0.tags, TagName)
    /\ stdout = OkLines

\* The least index of x in s, 0 when x is not in s.
FirstIndex(s, x) ==
    IF \E k \in 1..Len(s) : s[k] = x
    THEN CHOOSE k \in 1..Len(s) : s[k] = x /\ \A j \in 1..(k - 1) : s[j] # x
    ELSE 0

WithoutIndex(s, k) ==
    IF k = 0 THEN s ELSE SubSeq(s, 1, k - 1) \o SubSeq(s, k + 1, Len(s))

\* C19: the tag-ID sequence add passes to updateScene is the tag-ID sequence
\* of the scene findRandomScene returned, without the first occurrence of
\* the target ID when it has one, every other element in its place and
\* order, and with the target ID after them as the last element; the scene
\* ID passed is that scene's ID.
C19_UpdateKeepsOtherTags ==
    \A i \in 1..Len(calls) :
        calls[i].op = "updateScene"
            => LET old == IdsOf(calls[i - 1].ret[1].tags)
                   target == calls[i - 2].ret[1]
                   new == calls[i].arg.tag_ids
               IN /\ calls[i].arg.id = calls[i - 1].ret[1].id
                  /\ new = WithoutIndex(old, FirstIndex(old, target)) \o <<target>>
                  /\ new[Len(new)] = target
                  /\ Len(new) = IF Count(old, target) > 0 THEN Len(old) ELSE Len(old) + 1
                  /\ Count(new, target) = IF Count(old, target) > 0
                                          THEN Count(old, target) ELSE 1
                  /\ \A x \in {old[k] : k \in 1..Len(old)} \ {target} :
                        Count(new, x) = Count(old, x)

C19_Witness ==
    /\ Len(calls) = 3
    /\ calls[3].op = "updateScene"
    /\ LET old == IdsOf(calls[2].ret[1].tags)
           target == calls[1].ret[1]
       IN /\ Len(old) = MaxSceneTags
          /\ Count(old, target) = 2
          /\ old[1] = target
          /\ calls[3].arg.tag_ids = Tail(old) \o <<target>>

AddOps == {"findTagIdWithName", "createTagWithName", "findRandomSceneId", "updateScene"}
RemoveOps == {"findTagIdWithName", "destroyTag"}

\* C20: within an invocation a client is constructed, a remote call is
\* issued or the remote is changed only in modes "", "add" and "remove"; an
\* add invocation issues no destroyTag, a remove invocation no createTag,
\* findRandomScene or updateScene; progress is reported only in mode "long"
\* (and the warning is logged only in mode "indef").
C20_ModeIsolation ==
    /\ (client # None \/ calls # <<>> \/ lastResp # None \/ remote # remote0)
            => ModeIs({"", "add", "remove"})
    /\ ModeIs({"", "add"}) => \A i \in 1..Len(calls) : calls[i].op \in AddOps
    /\ ModeIs({"remove"}) => \A i \in 1..Len(calls) : calls[i].op \in RemoveOps
    /\ progress # <<>> => ModeIs({"long"})
    /\ warnings > 0 => ModeIs({"indef"})
    /\ pc \in {"add_findTag", "add_createTag", "add_findScene", "add_updateScene"}
            => ModeIs({"", "add"})
    /\ pc \in {"remove_findTag", "remove_destroyTag"} => ModeIs({"remove"})

C20_Witness ==
    /\ ModeIs({"remove"})
    /\ run = MaxRuns
    /\ pc = "crashed"
    /\ OpsOf(calls) = RemoveWithDestroy
    /\ remote # remote0
    /\ progress = <<>>

====
